---- MODULE Spec2Model ----
(***************************************************************************)
(* EcoPlanet3D: the game state of src/App.tsx as a state machine.          *)
(*                                                                         *)
(* Numbers.  The program computes in JavaScript doubles.  Every real       *)
(* valued quantity (efficiency, stats, pollution, money, energy, water,    *)
(* time of day) is kept here as an integer count of 1/Scale units; a       *)
(* product of two such values is divided by Scale and rounded down.        *)
(* Catalogue values, worker counts and coordinates are plain integers.     *)
(*                                                                         *)
(* Catalogue.  src/App.tsx imports BUILDINGS, DIFFICULTY_CONFIG,           *)
(* INITIAL_MONEY and DAY_LENGTH_TICKS from ./constants, which is not part  *)
(* of the sources at hand.  The entries below are representative           *)
(* definitions with the fields of BuildingDef (src/types.ts).              *)
(*                                                                         *)
(* Scheduling.  The game loop is a React effect with the dependencies      *)
(* timeSpeed, gamePhase and difficulty: when a handler changes one of      *)
(* them, the effect's cleanup clears the interval and the effect arms a    *)
(* new one if the phase is PLAYING.  The handlers are click handlers, for  *)
(* which the effect runs before the browser takes up the next timer, so    *)
(* the cleanup and the re-arming are part of the handler's step.  The      *)
(* callback of the interval reads the speed the effect captured.           *)
(*                                                                         *)
(* Exceptions.  A TypeError thrown by the state updater of the interval    *)
(* callback leaves the game state as it was; no error boundary exists in   *)
(* the sources, so React unmounts the application and the effect's         *)
(* cleanup clears the interval.                                            *)
(***************************************************************************)
EXTENDS Integers, Sequences, FiniteSets, TLC

VARIABLES
    gamePhase,      \* GameState.gamePhase: "MENU" | "PLAYING"
    difficulty,     \* GameState.difficulty
    grid,           \* GameState.grid: [Pos -> Cell]; << >> in the menu
    resources,      \* GameState.resources
    stats,          \* GameState.stats
    tickCount,      \* GameState.tickCount
    timeOfDay,      \* GameState.timeOfDay, in 1/Scale hours
    isRaining,      \* GameState.isRaining
    rainTimer,      \* GameState.rainTimer
    timeSpeed,      \* GameState.settings.timeSpeed
    selectedPos,    \* App's selectedPos state: a position or NoPos
    interval,       \* the interval of the game loop effect: whether one is armed,
                    \* the speed and delay its closure holds and the time left
                    \* until its next firing
    crashed,        \* an exception left the state updater: the application is
                    \* unmounted
    boot,           \* history: whether the session resumed the persisted state
    session,        \* the kind of session explored: the build-menu entries the
                    \* player uses and how many ticks and edits it lasts
    edits,          \* history: the clicks of this game that changed the grid
    probe,          \* the inputs and results of a formula or of the updater applied
                    \* on its own
    lastTick,       \* history: the water stock before the latest tick, the money
                    \* after it, whether it began under rain and whether
                    \* an active anchor produced or consumed water in it
    rainRun         \* history: the water stock before each of the last (at most
                    \* four) consecutive rain-collector ticks, and their capacity

vars == << gamePhase, difficulty, grid, resources, stats, tickCount, timeOfDay,
           isRaining, rainTimer, timeSpeed, selectedPos, interval, crashed, boot,
           session, edits, probe, lastTick, rainRun >>

\* the variables of the scheduling, which the editing handlers leave alone
scheduling == << interval, crashed, boot >>

----------------------------------------------------------------------------
(* Number representation and bounds *)

Scale == 100

\* ticks and grid-changing clicks per game in the shortest sessions
MaxTicks == 2
MaxEdits == 3

Min(a, b) == IF a < b THEN a ELSE b
Max(a, b) == IF a > b THEN a ELSE b
Abs(a) == IF a < 0 THEN 0 - a ELSE a

\* the product of two values held in 1/Scale units
Mul(a, b) == (a * b) \div Scale

RECURSIVE SeqSum(_)
SeqSum(s) == IF s = << >> THEN 0 ELSE Head(s) + SeqSum(Tail(s))

----------------------------------------------------------------------------
(* Types *)

StatType == {"AIR", "GREENERY", "WIND", "EARTH"}

NoBuilding == "null"
Undef == -1
NoPos == << Undef, Undef >>

\* DIFFICULTY_CONFIG[d].size
GridSize == 3

Pos == (0 .. GridSize - 1) \X (0 .. GridSize - 1)

\* the order of the loops "for x ... for y ..." and of grid.forEach(row => row.forEach(...))
CellOrder == [i \in 1 .. GridSize * GridSize |->
                << (i - 1) \div GridSize, (i - 1) % GridSize >>]

NoStats == [s \in StatType |-> 0]

----------------------------------------------------------------------------
(* The building catalogue (BUILDINGS of ./constants) *)

BaseDef == [ cost |-> 0, energyConsumption |-> 0, waterConsumption |-> 0,
             workersRequired |-> 0, workersProvided |-> 0,
             isRobot |-> FALSE, isSolar |-> FALSE,
             minStats |-> NoStats, statScaling |-> NoStats, effects |-> NoStats,
             resourceGeneration |-> 0, waterGeneration |-> 0, waterStorage |-> 0,
             pollutionRadius |-> 0, pollutionAmount |-> 0, pollutionCapReduction |-> 0,
             size |-> << 1, 1 >> ]

\* statScaling is held in 1/Scale units per stat point; everything else as written
BUILDINGS ==
    [ SOLAR_PANEL_SMALL |->
        [BaseDef EXCEPT !.cost = 100, !.energyConsumption = 10, !.isSolar = TRUE],
      SOLAR_PANEL_LARGE |->
        [BaseDef EXCEPT !.cost = 150, !.energyConsumption = 20, !.isSolar = TRUE,
                        !.size = << 2, 1 >>],
      COAL_PLANT |->
        [BaseDef EXCEPT !.cost = 100, !.energyConsumption = 20,
                        !.pollutionAmount = 10, !.pollutionRadius = 1,
                        !.effects = [NoStats EXCEPT !["AIR"] = -2]],
      FACTORY_SMALL |->
        [BaseDef EXCEPT !.cost = 100, !.energyConsumption = -10,
                        !.workersRequired = 10, !.resourceGeneration = 20,
                        !.pollutionAmount = 4, !.pollutionRadius = 1],
      HOUSE |->
        [BaseDef EXCEPT !.cost = 100, !.energyConsumption = 0,
                        !.workersProvided = 5, !.waterConsumption = 20],
      APARTMENT |->
        [BaseDef EXCEPT !.cost = 200, !.energyConsumption = 0,
                        !.workersProvided = 20, !.waterConsumption = 40,
                        !.size = << 2, 2 >>],
      ROBOT_HIVE |->
        [BaseDef EXCEPT !.cost = 100, !.energyConsumption = -10,
                        !.workersProvided = 10, !.isRobot = TRUE],
      WIND_TURBINE |->
        [BaseDef EXCEPT !.cost = 100, !.energyConsumption = 15,
                        !.minStats = [NoStats EXCEPT !["WIND"] = 10],
                        !.statScaling = [NoStats EXCEPT !["WIND"] = 1]],
      RAIN_COLLECTOR |->
        [BaseDef EXCEPT !.cost = 50, !.waterGeneration = 5],
      WATER_TANK |->
        [BaseDef EXCEPT !.cost = 50, !.waterStorage = 100],
      DEPOLLUTION_NODE_SMALL |->
        [BaseDef EXCEPT !.cost = 100, !.pollutionCapReduction = 95,
                        !.pollutionRadius = 1],
      FOREST_GROVE |->
        [BaseDef EXCEPT !.cost = 100, !.effects = [NoStats EXCEPT !["AIR"] = 5]],
      LARGE_TREE |->
        [BaseDef EXCEPT !.cost = 100,
                        !.effects = [NoStats EXCEPT !["GREENERY"] = 60, !["EARTH"] = 2]] ]

BuildingType == DOMAIN BUILDINGS

\* DIFFICULTY_CONFIG of ./constants; the multipliers are in 1/Scale units
DIFFICULTY_CONFIG ==
    [ NORMAL |-> [size |-> GridSize, moneyMultiplier |-> Scale, statMultiplier |-> Scale],
      HARD   |-> [size |-> GridSize, moneyMultiplier |-> Scale \div 2,
                  statMultiplier |-> Scale \div 2] ]

Difficulty == DOMAIN DIFFICULTY_CONFIG

INITIAL_MONEY == 300

DAY_LENGTH_TICKS == 4

\* the interval between ticks at speed 1, in milliseconds
TICK_RATE_MS == 1000

\* Math.random() in thousandths: below and above the thresholds of the
\* weather step
Draws == {0, 500}

\* the cells a session's clicks with a building tool land on; clicks with
\* the other tools land anywhere
PairCells == { << 0, 0 >>, << 1, 0 >> }

BuildCells == PairCells \cup { << 2, 2 >> }

\* the sessions explored: what is built and where, for how long, the
\* weather draws (rain acts on rain collectors only), whether the speed
\* button and the time between two firings are explored, and what
\* localStorage holds when the application mounts
BuildSessions ==
    { [ palette |-> {"SOLAR_PANEL_SMALL", "SOLAR_PANEL_LARGE"}, cells |-> PairCells,
        ticks |-> MaxTicks, edits |-> MaxEdits + 1, draws |-> {500} ],
      [ palette |-> {"SOLAR_PANEL_SMALL", "FACTORY_SMALL", "HOUSE"}, cells |-> BuildCells,
        ticks |-> MaxTicks, edits |-> MaxEdits, draws |-> {500} ],
      [ palette |-> {"COAL_PLANT", "DEPOLLUTION_NODE_SMALL"}, cells |-> PairCells,
        ticks |-> MaxTicks, edits |-> MaxEdits, draws |-> {500} ],
      [ palette |-> {"RAIN_COLLECTOR", "WATER_TANK"}, cells |-> PairCells,
        ticks |-> MaxTicks + 3, edits |-> MaxEdits - 1, draws |-> Draws ],
      [ palette |-> {"LARGE_TREE", "ROBOT_HIVE"}, cells |-> PairCells,
        ticks |-> MaxTicks + 1, edits |-> MaxEdits - 1, draws |-> {500} ] }

\* the texts localStorage can hold under SAVE_KEY
SavedTexts == {"garbage", "menu", "no difficulty", "retired building",
               "retired building switched off"}

Sessions ==
    { [ palette |-> b.palette, cells |-> b.cells, ticks |-> b.ticks, edits |-> b.edits,
        draws |-> b.draws, clock |-> FALSE, saved |-> "none" ] : b \in BuildSessions }
    \cup
    \* an empty map: the speed button and the time between firings
    { [ palette |-> {}, cells |-> {}, ticks |-> MaxTicks + 1, edits |-> 0,
        draws |-> Draws, clock |-> TRUE, saved |-> "none" ] }
    \cup
    \* an empty map: a rain from its start to its end
    { [ palette |-> {}, cells |-> {}, ticks |-> MaxTicks + 31, edits |-> 0,
        draws |-> Draws, clock |-> FALSE, saved |-> "none" ] }
    \cup
    \* mounting with a text in localStorage
    { [ palette |-> {}, cells |-> {}, ticks |-> MaxTicks, edits |-> 0,
        draws |-> {500}, clock |-> FALSE, saved |-> t ] : t \in SavedTexts }

----------------------------------------------------------------------------
(* Construction *)

\* createInitialGrid: one cell
EmptyCell == [ building |-> NoBuilding, refX |-> Undef, refY |-> Undef,
               pollution |-> 0, pollutionCap |-> 100 * Scale,
               isActive |-> TRUE, isPowered |-> TRUE, efficiency |-> Scale ]

createInitialGrid == [p \in Pos |-> EmptyCell]

\* getInitialState().resources
InitialResources == [ money |-> INITIAL_MONEY * Scale, lastIncome |-> 0, energy |-> 0,
                      energyDemand |-> 0, maxEnergy |-> 100 * Scale,
                      water |-> 500 * Scale, maxWater |-> 500 * Scale,
                      workforce |-> 0, workforceDemand |-> 0 ]

\* the formula has not been applied
NoProbe == [done |-> FALSE]

\* no tick has run yet
NoTick == [ran |-> FALSE]

\* no rain-collector tick has been seen yet
NoRun == [cap |-> 0, before |-> << >>]

\* getInitialState
getInitialState ==
    [ gamePhase |-> "MENU", difficulty |-> "NORMAL", grid |-> << >>,
      resources |-> InitialResources, stats |-> NoStats, tickCount |-> 0,
      timeOfDay |-> 8 * Scale, isRaining |-> FALSE, rainTimer |-> 0, timeSpeed |-> 1 ]

\* the state handleStartGame sets
NewGame(d) ==
    [ getInitialState EXCEPT
        !.gamePhase = "PLAYING",
        !.difficulty = d,
        !.grid = createInitialGrid,
        !.resources.money = Mul(INITIAL_MONEY * Scale, DIFFICULTY_CONFIG[d].moneyMultiplier) ]

\* an object without the key f
Without(st, f) == [k \in DOMAIN st \ {f} |-> st[k]]

\* a building of a type the catalogue has no entry for, on its anchor cell
RetiredBuilding(pos, isActive) ==
    [ EmptyCell EXCEPT !.building = "RETIRED_BUILDING", !.refX = pos[1], !.refY = pos[2],
                       !.isActive = isActive ]

\* a game saved right after its start, with a solar panel at << 2, 2 >> and a
\* building of a retired type at << 0, 0 >>
RetiredGame(isActive) ==
    [ NewGame("NORMAL") EXCEPT
        !.grid = [ createInitialGrid EXCEPT
                     ![<< 0, 0 >>] = RetiredBuilding(<< 0, 0 >>, isActive),
                     ![<< 2, 2 >>] = [ EmptyCell EXCEPT !.building = "SOLAR_PANEL_SMALL",
                                                        !.refX = 2, !.refY = 2 ] ] ]

\* localStorage.getItem(SAVE_KEY) and what JSON.parse makes of it: nothing
\* saved, a text that is not JSON, or the keys of the parsed object
Stored(text) ==
    CASE text = "none" -> [ saved |-> FALSE ]
      [] text = "garbage" -> [ saved |-> TRUE, parses |-> FALSE ]
      [] text = "menu" -> [ saved |-> TRUE, parses |-> TRUE, parsed |-> getInitialState ]
      [] text = "no difficulty" ->
            [ saved |-> TRUE, parses |-> TRUE,
              parsed |-> Without(NewGame("NORMAL"), "difficulty") ]
      [] text = "retired building" ->
            [ saved |-> TRUE, parses |-> TRUE, parsed |-> RetiredGame(TRUE) ]
      [] text = "retired building switched off" ->
            [ saved |-> TRUE, parses |-> TRUE, parsed |-> RetiredGame(FALSE) ]

\* the test of the lazy initializer: parsed.grid && parsed.grid.length > 0
Resumes(stored) ==
    /\ stored.saved
    /\ stored.parses
    /\ "grid" \in DOMAIN stored.parsed
    /\ DOMAIN stored.parsed.grid # {}

\* the lazy initializer of gameState
Load(stored) == IF Resumes(stored) THEN stored.parsed ELSE getInitialState

\* reading a key of the state object: undefined when the key is absent
Field(st, f) == IF f \in DOMAIN st THEN st[f] ELSE "undefined"

\* timeSpeed || 1
ClosureSpeed(speed) == IF speed = 0 THEN 1 ELSE speed

\* Math.max(50, TICK_RATE_MS / speed), in milliseconds
Delay(speed) == Max(50, TICK_RATE_MS \div speed)

\* no interval exists; cleared: one existed and clearInterval ended it
NoInterval == [ armed |-> FALSE, cleared |-> FALSE ]

\* the effect without its guard on the phase
GameLoopEffectUnguarded(phase, speed, was) ==
    [ armed |-> TRUE, speed |-> ClosureSpeed(speed), delay |-> Delay(ClosureSpeed(speed)),
      left |-> Delay(ClosureSpeed(speed)) ]

\* the game loop effect, run at mount and again when the phase, the speed or
\* the difficulty changed: the cleanup of its previous run, then the guard
\* and setInterval
GameLoopEffect(phase, speed, was) ==
    IF phase # "PLAYING"
    THEN [ armed |-> FALSE, cleared |-> was.armed \/ was.cleared ]
    ELSE [ armed |-> TRUE, speed |-> ClosureSpeed(speed), delay |-> Delay(ClosureSpeed(speed)),
           left |-> Delay(ClosureSpeed(speed)) ]

\* the application after mounting: the state the lazy initializer returns
\* and the first run of the game loop effect
InitialState ==
    /\ session \in Sessions
    /\ LET st == Load(Stored(session.saved))
       IN  /\ gamePhase = Field(st, "gamePhase")
           /\ difficulty = Field(st, "difficulty")
           /\ grid = Field(st, "grid")
           /\ resources = Field(st, "resources")
           /\ stats = Field(st, "stats")
           /\ tickCount = Field(st, "tickCount")
           /\ timeOfDay = Field(st, "timeOfDay")
           /\ isRaining = Field(st, "isRaining")
           /\ rainTimer = Field(st, "rainTimer")
           /\ timeSpeed = Field(st, "timeSpeed")
    /\ selectedPos = NoPos
    /\ interval = GameLoopEffect(gamePhase, timeSpeed, NoInterval)
    /\ crashed = FALSE
    /\ boot = [ resumed |-> Resumes(Stored(session.saved)) ]
    /\ edits = 0
    /\ lastTick = NoTick
    /\ rainRun = NoRun

Init == InitialState /\ probe = NoProbe

\* handleStartGame, offered by the menu screen only
StartGame(d) ==
    /\ ~crashed
    /\ gamePhase = "MENU"
    /\ gamePhase' = "PLAYING"
    /\ difficulty' = d
    /\ grid' = createInitialGrid
    /\ resources' = [InitialResources EXCEPT
                        !.money = Mul(INITIAL_MONEY * Scale, DIFFICULTY_CONFIG[d].moneyMultiplier)]
    /\ stats' = NoStats
    /\ tickCount' = 0
    /\ timeOfDay' = 8 * Scale
    /\ isRaining' = FALSE
    /\ rainTimer' = 0
    /\ timeSpeed' = 1
    /\ lastTick' = NoTick
    /\ rainRun' = NoRun
    /\ edits' = 0
    /\ interval' = GameLoopEffect("PLAYING", 1, interval)
    /\ UNCHANGED << selectedPos, crashed, boot, session, probe >>

----------------------------------------------------------------------------
(* The game loop: one firing of the interval callback *)

\* BUILDINGS[cell.building]; the code looks it up for occupied cells only.
\* For a type without an entry the lookup yields undefined: reading a field of
\* it throws (Throws), and where no field is read no value is needed
Def(c) == IF c.building \in BuildingType THEN BUILDINGS[c.building] ELSE BaseDef

Occupied(c) == c.building # NoBuilding

\* cell.x === cell.refX && cell.y === cell.refY
IsAnchor(g, p) == Occupied(g[p]) /\ g[p].refX = p[1] /\ g[p].refY = p[2]

\* cell.building && cell.isActive && cell.x === cell.refX && cell.y === cell.refY
IsActiveAnchor(g, p) == IsAnchor(g, p) /\ g[p].isActive

\* the cells the passes over prev.grid act on, in loop order
ActiveAnchors(g) == SelectSeq(CellOrder, LAMBDA p : IsActiveAnchor(g, p))

\* the sum, over the cells of the sequence a, of f
SumOver(a, f) == SeqSum([i \in 1 .. Len(a) |-> f[a[i]]])

\* a diamond instead of the square of the radius loops
InRadiusDiamond(p, q, r) == Abs(p[1] - q[1]) + Abs(p[2] - q[2]) <= r

\* the offsets i, j of the radius loops reach p from q
InRadius(p, q, r) == Abs(p[1] - q[1]) <= r /\ Abs(p[2] - q[2]) <= r

\* nextTime
NextTime(t) ==
    LET n == t + (24 * Scale) \div DAY_LENGTH_TICKS
    IN  IF n >= 24 * Scale THEN 0 ELSE n

IsDay(t) == t > 6 * Scale /\ t < 18 * Scale

cloudSeederCount(g) ==
    Cardinality({p \in Pos : /\ IsActiveAnchor(g, p)
                             /\ g[p].building = "CLOUD_SEEDER"
                             /\ g[p].isPowered /\ g[p].efficiency > 0})

\* a rain of thirty ticks at every speed
WeatherUnscaled(g, rain, timer, speed, draw) ==
    IF rain
    THEN IF timer > 0
         THEN [isRaining |-> TRUE, rainTimer |-> timer - 1]
         ELSE [isRaining |-> ~(draw < 20), rainTimer |-> timer]
    ELSE IF draw < 5 + 10 * cloudSeederCount(g)
         THEN [isRaining |-> TRUE, rainTimer |-> 30]
         ELSE [isRaining |-> FALSE, rainTimer |-> timer]

\* the weather step: draw is Math.random() in thousandths
Weather(g, rain, timer, speed, draw) ==
    IF rain
    THEN IF timer > 0
         THEN [isRaining |-> TRUE, rainTimer |-> timer - 1]
         ELSE [isRaining |-> ~(draw < 20), rainTimer |-> timer]
    ELSE IF draw < 5 + 10 * cloudSeederCount(g)
         THEN [isRaining |-> TRUE, rainTimer |-> 30 * speed]
         ELSE [isRaining |-> FALSE, rainTimer |-> timer]

\* depollution pass: the cap of cell p after the active anchors a[i], a[i+1], ...
RECURSIVE CapFrom(_, _, _, _, _)
CapFrom(g, a, p, i, cap) ==
    IF i > Len(a) THEN cap
    ELSE LET d == Def(g[a[i]])
         IN  IF /\ d.pollutionCapReduction # 0 /\ d.pollutionRadius # 0
                /\ InRadius(p, a[i], d.pollutionRadius)
             THEN CapFrom(g, a, p, i + 1, Max(0, cap - d.pollutionCapReduction * Scale))
             ELSE CapFrom(g, a, p, i + 1, cap)

PollutionCap(g, a, p) == CapFrom(g, a, p, 1, 100 * Scale)

\* housing that works without water
WorkersCountedDry(d, isDay, availableWaterStock) ==
    IF d.workersProvided # 0 /\ (isDay \/ d.isRobot) THEN d.workersProvided ELSE 0

\* first pass: the workers one housing anchor adds to totalWorkforce
WorkersCounted(d, isDay, availableWaterStock) ==
    IF /\ d.workersProvided # 0
       /\ (isDay \/ d.isRobot)
       /\ (~(d.waterConsumption > 0) \/ availableWaterStock > 0)
    THEN d.workersProvided ELSE 0

\* a rain collector that never collects
WaterProducedByDry(c, rain) == 0

\* first pass: the water one anchor adds to waterProduced
WaterProducedBy(c, rain) ==
    (IF c.building = "RAIN_COLLECTOR" /\ rain THEN Def(c).waterGeneration ELSE 0)
  + (IF c.building = "ATMOSPHERIC_CONDENSER" /\ c.isPowered THEN Def(c).waterGeneration ELSE 0)

\* Object.entries(def.minStats).every(...)
MeetsMinStats(d, st) ==
    \A s \in StatType : d.minStats[s] = 0 \/ st[s] >= d.minStats[s] * Scale

\* the sum of prev.stats[k] * v over def.statScaling
ScalingSum(d, st) ==
    Mul(st["AIR"], d.statScaling["AIR"]) + Mul(st["GREENERY"], d.statScaling["GREENERY"])
    + Mul(st["WIND"], d.statScaling["WIND"]) + Mul(st["EARTH"], d.statScaling["EARTH"])

\* second pass: statEfficiency
StatEfficiency(d, st) ==
    IF ~MeetsMinStats(d, st) THEN 0 ELSE Scale + ScalingSum(d, st)

\* second pass: what one anchor adds to tempEnergyProduced
TempEnergyOf(d, st, isDay) ==
    IF d.isSolar /\ ~isDay THEN 0
    ELSE IF d.energyConsumption > 0 THEN d.energyConsumption * StatEfficiency(d, st)
    ELSE 0

\* power granted only when production exceeds demand
GridHasPowerStrict(tempEnergyProduced, potentialEnergyDemand) ==
    tempEnergyProduced > potentialEnergyDemand

\* third pass: gridHasPower
GridHasPower(tempEnergyProduced, potentialEnergyDemand) ==
    tempEnergyProduced >= potentialEnergyDemand

WorkforceRatio(totalWorkforce, totalWorkforceDemand) ==
    IF totalWorkforceDemand > 0
    THEN Min(Scale, (totalWorkforce * Scale) \div totalWorkforceDemand) ELSE Scale

\* availableWater is in 1/Scale units, tempWaterConsumed a plain sum
WaterRatio(availableWater, tempWaterConsumed) ==
    IF tempWaterConsumed > 0
    THEN Min(Scale, availableWater \div tempWaterConsumed) ELSE Scale

\* the night test inverted: a solar panel idle by day
ProducerEfficiencyDark(d, st, isDay) ==
    IF d.isSolar /\ isDay THEN 0
    ELSE IF ~MeetsMinStats(d, st) THEN 0 ELSE Scale + ScalingSum(d, st)

\* the minStats test dropped from the producer branch
ProducerEfficiencyUngated(d, st, isDay) ==
    IF d.isSolar /\ ~isDay THEN 0 ELSE Scale + ScalingSum(d, st)

\* effect pass, producer branch: efficiency
ProducerEfficiency(d, st, isDay) ==
    IF d.isSolar /\ ~isDay THEN 0
    ELSE IF ~MeetsMinStats(d, st) THEN 0 ELSE Scale + ScalingSum(d, st)

\* effect pass, consumer branch: isPowered and efficiency
ConsumerState(d, k) ==
    IF ~k.gridHasPower /\ d.energyConsumption < 0
    THEN [isPowered |-> FALSE, efficiency |-> 0]
    ELSE LET e1 == IF d.workersRequired # 0 THEN Mul(Scale, k.workforceRatio) ELSE Scale
             e2 == IF d.waterConsumption # 0 THEN Mul(e1, k.waterRatio) ELSE e1
             asleep == /\ d.workersProvided > 0
                       /\ \/ (~k.isDay /\ ~d.isRobot)
                          \/ (d.waterConsumption > 0 /\ ~(k.availableWaterStock > 0))
         IN  [isPowered |-> TRUE, efficiency |-> IF asleep THEN 0 ELSE e2]

\* effect pass: the isPowered and efficiency written to one cell; k holds
\* what the earlier passes computed
CellState(c, k) ==
    IF ~Occupied(c) THEN [isPowered |-> TRUE, efficiency |-> Scale]
    ELSE IF ~c.isActive THEN [isPowered |-> FALSE, efficiency |-> 0]
    ELSE IF Def(c).energyConsumption > 0
         THEN [isPowered |-> TRUE,
               efficiency |-> ProducerEfficiency(Def(c), k.stats, k.isDay)]
         ELSE ConsumerState(Def(c), k)

\* the factor without its floor of 0.1
DiminishingNumUnfloored(currentVal) == 150 * Scale - currentVal

\* diminishingFactor = Math.max(0.1, 1 - currentVal / 150), as a numerator
\* over DiminishingDen
DiminishingDen == 150 * Scale

DiminishingNum(currentVal) == Max(15 * Scale, 150 * Scale - currentVal)

\* change = val * efficiency * statMultiplier, before diminishing
NominalChange(val, efficiency, statMultiplier) ==
    (val * efficiency * statMultiplier) \div Scale

\* change, diminished when positive, times DiminishingDen
StatChangeNum(val, efficiency, statMultiplier, currentVal) ==
    LET change == NominalChange(val, efficiency, statMultiplier)
    IN  IF change > 0 THEN change * DiminishingNum(currentVal)
        ELSE change * DiminishingDen

\* newStats[sType] = Math.max(0, currentVal + change)
ApplyEffect(val, efficiency, statMultiplier, currentVal) ==
    IF val = 0 THEN currentVal
    ELSE Max(0, currentVal
                + StatChangeNum(val, efficiency, statMultiplier, currentVal) \div DiminishingDen)

\* cell.isActive && isPowered && efficiency > 0, for the state cs the effect
\* pass computed for the cell
Operating(c, cs) == c.isActive /\ cs.isPowered /\ cs.efficiency > 0

\* income paid in full whatever the efficiency
MoneyOfNominal(d, efficiency) == d.resourceGeneration * Scale

\* what one operating anchor adds to moneyChange
MoneyOf(d, efficiency) == d.resourceGeneration * efficiency

\* effect pass: newStats after the active anchors a[i], a[i+1], ...
RECURSIVE StatsFrom(_, _, _, _, _, _)
StatsFrom(g, a, cs, mult, i, st) ==
    IF i > Len(a) THEN st
    ELSE IF Operating(g[a[i]], cs[a[i]])
         THEN StatsFrom(g, a, cs, mult, i + 1,
                 [s \in StatType |->
                     ApplyEffect(Def(g[a[i]]).effects[s], cs[a[i]].efficiency, mult, st[s])])
         ELSE StatsFrom(g, a, cs, mult, i + 1, st)

\* spatial pollution: what the operating anchors add to cell p
EmittedOnto(g, a, cs, p) ==
    SeqSum([i \in 1 .. Len(a) |->
        LET d == Def(g[a[i]])
        IN  IF /\ Operating(g[a[i]], cs[a[i]])
               /\ d.pollutionAmount # 0 /\ d.pollutionRadius # 0
               /\ InRadius(p, a[i], d.pollutionRadius)
            THEN d.pollutionAmount * cs[a[i]].efficiency
            ELSE 0])

\* newPollution = Math.max(0, cell.pollution - 1)
DecayPollution(pollution) == Max(0, pollution - Scale)

\* pollution left as accumulated
ClampPollutionSkipped(pollutionCap, pollution) == pollution

\* Math.min(pollutionCap, pollution)
ClampPollution(pollutionCap, pollution) == Min(pollutionCap, pollution)

\* the stock without the storage ceiling
NewWaterStockUncapped(water, netWater, waterStorageCapacity) == Max(0, water + netWater)

\* the stock without its floor at 0
NewWaterStockUnfloored(water, netWater, waterStorageCapacity) ==
    Min(waterStorageCapacity, water + netWater)

\* newWaterStock
NewWaterStock(water, netWater, waterStorageCapacity) ==
    Max(0, Min(waterStorageCapacity, water + netWater))

\* history only: no active anchor of g produces or consumes water
NoWaterFlow(g) ==
    \A p \in DOMAIN g :
        IsActiveAnchor(g, p) =>
            Def(g[p]).waterGeneration = 0 /\ Def(g[p]).waterConsumption = 0

\* history only: a raining tick in which one rain collector of rate 5 is
\* active and no other active anchor produces or consumes water
CollectorTick(g, rain) ==
    /\ rain
    /\ \E c \in DOMAIN g :
        /\ IsActiveAnchor(g, c)
        /\ g[c].building = "RAIN_COLLECTOR" /\ Def(g[c]).waterGeneration = 5
        /\ \A p \in DOMAIN g \ {c} :
            IsActiveAnchor(g, p) =>
                Def(g[p]).waterGeneration = 0 /\ Def(g[p]).waterConsumption = 0

NextRun(run, collectorTick, water, capacity) ==
    IF ~collectorTick THEN NoRun
    ELSE IF run.before # << >> /\ run.cap = capacity
         THEN [cap |-> capacity,
               before |-> IF Len(run.before) < 4
                          THEN Append(run.before, water)
                          ELSE Append(Tail(run.before), water)]
         ELSE [cap |-> capacity, before |-> << water >>]

\* the copy that also writes the power state into the user toggle
NextCellRetoggled(c, cap, state, pollution) ==
    [c EXCEPT !.pollutionCap = cap, !.isPowered = state.isPowered,
              !.isActive = state.isPowered,
              !.efficiency = state.efficiency, !.pollution = pollution]

\* the cell of nextGrid: a copy of the previous cell with the fields the
\* tick writes
NextCell(c, cap, state, pollution) ==
    [c EXCEPT !.pollutionCap = cap, !.isPowered = state.isPowered,
              !.efficiency = state.efficiency, !.pollution = pollution]

\* the state the interval callback returns for the state prev
TickOf(prev, draw, speed) ==
    LET a == ActiveAnchors(prev.grid)
        def == [p \in Pos |-> Def(prev.grid[p])]
        nextTime == NextTime(prev.timeOfDay)
        isDay == IsDay(nextTime)
        w == Weather(prev.grid, prev.isRaining, prev.rainTimer, speed, draw)
        availableWaterStock == prev.resources.water
        \* first pass
        waterStorageCapacity ==
            50 * Scale + prev.stats["EARTH"] * 10
            + Scale * SumOver(a, [p \in Pos |-> def[p].waterStorage])
        totalWorkforce ==
            SumOver(a, [p \in Pos |-> WorkersCounted(def[p], isDay, availableWaterStock)])
        totalWorkforceDemand == SumOver(a, [p \in Pos |-> def[p].workersRequired])
        waterProduced ==
            Scale * SumOver(a, [p \in Pos |-> WaterProducedBy(prev.grid[p], w.isRaining)])
        \* second and third pass
        tempEnergyProduced ==
            SumOver(a, [p \in Pos |-> TempEnergyOf(def[p], prev.stats, isDay)])
        potentialEnergyDemand ==
            Scale * SumOver(a, [p \in Pos |->
                IF def[p].energyConsumption < 0 THEN Abs(def[p].energyConsumption) ELSE 0])
        tempWaterConsumed == SumOver(a, [p \in Pos |-> def[p].waterConsumption])
        k == [ stats |-> prev.stats, isDay |-> isDay,
               availableWaterStock |-> availableWaterStock,
               workforceRatio |-> WorkforceRatio(totalWorkforce, totalWorkforceDemand),
               waterRatio |-> WaterRatio(prev.resources.water + waterProduced, tempWaterConsumed),
               gridHasPower |-> GridHasPower(tempEnergyProduced, potentialEnergyDemand) ]
        \* effect pass
        cs == [p \in Pos |-> CellState(prev.grid[p], k)]
        energyProduced ==
            SumOver(a, [p \in Pos |->
                IF def[p].energyConsumption > 0 /\ ~(def[p].isSolar /\ ~isDay)
                THEN def[p].energyConsumption * cs[p].efficiency ELSE 0])
        totalEnergyDemand ==
            Scale * SumOver(a, [p \in Pos |->
                IF def[p].energyConsumption > 0 THEN 0 ELSE Abs(def[p].energyConsumption)])
        waterConsumed ==
            Scale * SumOver(a, [p \in Pos |->
                IF /\ ~(def[p].energyConsumption > 0)
                   /\ ~(~k.gridHasPower /\ def[p].energyConsumption < 0)
                THEN def[p].waterConsumption ELSE 0])
        moneyChange ==
            SumOver(a, [p \in Pos |->
                IF Operating(prev.grid[p], cs[p]) THEN MoneyOf(def[p], cs[p].efficiency) ELSE 0])
        newStats ==
            StatsFrom(prev.grid, a, cs, DIFFICULTY_CONFIG[prev.difficulty].statMultiplier, 1, prev.stats)
        \* spatial pollution and clamp
        nextGrid == [p \in Pos |->
            LET cap == PollutionCap(prev.grid, a, p)
            IN  NextCell(prev.grid[p], cap, cs[p],
                    ClampPollution(cap,
                        DecayPollution(prev.grid[p].pollution) + EmittedOnto(prev.grid, a, cs, p)))]
    IN  [ grid |-> nextGrid,
          resources |->
            [ money |-> prev.resources.money + moneyChange,
              lastIncome |-> moneyChange,
              energy |-> energyProduced - totalEnergyDemand,
              energyDemand |-> totalEnergyDemand,
              maxEnergy |-> energyProduced,
              water |-> NewWaterStock(prev.resources.water, waterProduced - waterConsumed,
                                      waterStorageCapacity),
              maxWater |-> waterStorageCapacity,
              workforce |-> totalWorkforce,
              workforceDemand |-> totalWorkforceDemand ],
          stats |-> newStats,
          timeOfDay |-> nextTime,
          isRaining |-> w.isRaining,
          rainTimer |-> w.rainTimer,
          rainRun |-> NextRun(prev.rainRun, CollectorTick(prev.grid, w.isRaining),
                              prev.resources.water, waterStorageCapacity),
          lastTick |-> [ran |-> TRUE, water |-> prev.resources.water,
                        noFlow |-> NoWaterFlow(prev.grid), rained |-> prev.isRaining,
                        money |-> prev.resources.money + moneyChange] ]

\* the updater applied to the state in hand
TickResult(draw, speed) ==
    TickOf([ grid |-> grid, resources |-> resources, stats |-> stats,
             timeOfDay |-> timeOfDay, isRaining |-> isRaining, rainTimer |-> rainTimer,
             rainRun |-> rainRun, difficulty |-> difficulty ], draw, speed)

\* the state updater throws a TypeError: it reads pollutionCapReduction or
\* energyConsumption of the definition of an active cell whose type has no
\* entry, statMultiplier of the configuration of a difficulty that has none,
\* or a cell of a row the grid lacks (the grid of the menu is empty while
\* mapSize is 15)
Throws(g, d) ==
    \/ \E p \in DOMAIN g :
          Occupied(g[p]) /\ g[p].building \notin BuildingType /\ g[p].isActive
    \/ d \notin Difficulty
    \/ DOMAIN g # Pos

\* one firing of the interval: the callback runs the state updater once, with
\* the speed its closure holds, and setInterval schedules the next firing
\* one delay later
Tick(draw) ==
    /\ ~crashed
    /\ interval.armed
    /\ tickCount < session.ticks
    /\ IF Throws(grid, difficulty)
       THEN /\ crashed' = TRUE
            /\ interval' = [ armed |-> FALSE, cleared |-> TRUE ]
            /\ UNCHANGED << grid, resources, stats, timeOfDay, isRaining, rainTimer,
                            rainRun, lastTick, tickCount >>
       ELSE /\ LET r == TickResult(draw, interval.speed)
               IN  /\ grid' = r.grid
                   /\ resources' = r.resources
                   /\ stats' = r.stats
                   /\ timeOfDay' = r.timeOfDay
                   /\ isRaining' = r.isRaining
                   /\ rainTimer' = r.rainTimer
                   /\ rainRun' = r.rainRun
                   /\ lastTick' = r.lastTick
            /\ tickCount' = tickCount + 1
            /\ interval' = [ interval EXCEPT !.left = interval.delay ]
            /\ UNCHANGED crashed
    /\ UNCHANGED << gamePhase, difficulty, timeSpeed, selectedPos, boot, session, probe, edits >>

\* time passes without a firing: the shortest delay of the speed button, as
\* long as the firing is not yet due
TimePasses ==
    /\ ~crashed
    /\ session.clock
    /\ interval.armed
    /\ interval.left > Delay(4)
    /\ interval' = [ interval EXCEPT !.left = @ - Delay(4) ]
    /\ UNCHANGED << gamePhase, difficulty, grid, resources, stats, tickCount, timeOfDay,
                    isRaining, rainTimer, timeSpeed, selectedPos, crashed, boot, session,
                    edits, probe, lastTick, rainRun >>

----------------------------------------------------------------------------
(* Interaction *)

\* the cells anchorX + i, anchorY + j of a footprint that pass the handlers'
\* "< gridSize" test
Footprint(anchor, size) ==
    {p \in Pos : /\ anchor[1] <= p[1] /\ p[1] < anchor[1] + size[1]
                 /\ anchor[2] <= p[2] /\ p[2] < anchor[2] + size[2]}

\* def.cost / 0.5 in place of def.cost * 0.5
RefundDoubled(d) == d.cost * 2

\* refund = Math.floor(def.cost * 0.5)
Refund(d) == d.cost \div 2

\* anchorX, anchorY of a clicked cell
AnchorOf(g, pos) == << IF g[pos].refX # Undef THEN g[pos].refX ELSE pos[1],
                       IF g[pos].refY # Undef THEN g[pos].refY ELSE pos[2] >>

\* handleCellClick, bulldozer branch: the grid returned
BulldozedGrid(g, anchor) ==
    LET cleared == Footprint(anchor, Def(g[anchor]).size)
    IN  [p \in Pos |->
            IF p \in cleared
            THEN [g[p] EXCEPT !.building = NoBuilding, !.refX = Undef, !.refY = Undef,
                              !.isActive = TRUE, !.isPowered = TRUE,
                              !.efficiency = Scale, !.pollution = 0]
            ELSE g[p]]

\* the money test dropped from the placement
CanPlaceUnfunded(g, money, pos, selectedBuilding) ==
    LET buildingDef == BUILDINGS[selectedBuilding]
    IN  /\ ~(pos[1] + buildingDef.size[1] > GridSize \/ pos[2] + buildingDef.size[2] > GridSize)
        /\ \A p \in Footprint(pos, buildingDef.size) : g[p].building = NoBuilding

\* handleCellClick, placement: the test the click must pass
CanPlace(g, money, pos, selectedBuilding) ==
    LET buildingDef == BUILDINGS[selectedBuilding]
    IN  /\ ~(pos[1] + buildingDef.size[1] > GridSize \/ pos[2] + buildingDef.size[2] > GridSize)
        /\ \A p \in Footprint(pos, buildingDef.size) : g[p].building = NoBuilding
        /\ money >= buildingDef.cost * Scale

\* handleCellClick, placement: the grid returned
PlacedGrid(g, pos, selectedBuilding) ==
    LET target == Footprint(pos, BUILDINGS[selectedBuilding].size)
    IN  [p \in Pos |->
            IF p \in target
            THEN [g[p] EXCEPT !.building = selectedBuilding,
                              !.refX = pos[1], !.refY = pos[2],
                              !.isActive = TRUE, !.isPowered = TRUE,
                              !.efficiency = Scale, !.pollutionCap = 100 * Scale]
            ELSE g[p]]

\* handleCellClick; selectedBuilding is the tool picked in the build menu
\* ("NONE", "BULLDOZER" or a building) when the click arrives
handleCellClick(pos, selectedBuilding) ==
    /\ ~crashed
    /\ gamePhase = "PLAYING"
    /\ IF selectedBuilding = "BULLDOZER"
       THEN IF Occupied(grid[pos]) /\ Occupied(grid[AnchorOf(grid, pos)])
            THEN /\ edits < session.edits
                 /\ grid' = BulldozedGrid(grid, AnchorOf(grid, pos))
                 /\ resources' = [resources EXCEPT
                        !.money = @ + Refund(Def(grid[AnchorOf(grid, pos)])) * Scale]
                 /\ edits' = edits + 1
                 /\ UNCHANGED selectedPos
            ELSE UNCHANGED << grid, resources, selectedPos, edits >>
       ELSE IF selectedBuilding = "NONE" \/ Occupied(grid[pos])
       THEN /\ selectedPos' = IF Occupied(grid[pos]) THEN AnchorOf(grid, pos) ELSE NoPos
            /\ UNCHANGED << grid, resources, edits >>
       ELSE IF CanPlace(grid, resources.money, pos, selectedBuilding)
            THEN /\ edits < session.edits
                 /\ grid' = PlacedGrid(grid, pos, selectedBuilding)
                 /\ resources' = [resources EXCEPT
                        !.money = @ - BUILDINGS[selectedBuilding].cost * Scale]
                 /\ edits' = edits + 1
                 /\ UNCHANGED selectedPos
            ELSE UNCHANGED << grid, resources, selectedPos, edits >>
    /\ UNCHANGED << gamePhase, difficulty, stats, tickCount, timeOfDay, isRaining,
                    rainTimer, timeSpeed, scheduling, session, probe, lastTick, rainRun >>

\* a toggle that reaches the selected cell only
ToggledGridAnchorOnly(g, sel) ==
    [p \in Pos |-> IF p = sel THEN [g[p] EXCEPT !.isActive = ~g[sel].isActive] ELSE g[p]]

\* toggleBuildingActive: the grid returned
ToggledGrid(g, sel) ==
    LET isActive == ~g[sel].isActive
        touched == IF Occupied(g[sel]) THEN Footprint(sel, Def(g[sel]).size) ELSE {}
    IN  [p \in Pos |-> IF p \in touched THEN [g[p] EXCEPT !.isActive = isActive] ELSE g[p]]

\* toggleBuildingActive; the inspector shows its button for an occupied
\* selected cell
toggleBuildingActive ==
    /\ ~crashed
    /\ selectedPos # NoPos
    /\ Occupied(grid[selectedPos])
    /\ edits < session.edits
    /\ grid' = ToggledGrid(grid, selectedPos)
    /\ edits' = edits + 1
    /\ UNCHANGED << gamePhase, difficulty, resources, stats, tickCount, timeOfDay,
                    isRaining, rainTimer, timeSpeed, selectedPos, scheduling, session, probe, lastTick, rainRun >>

\* destroyBuilding: the grid returned
DestroyedGrid(g, sel) ==
    LET cleared == Footprint(sel, Def(g[sel]).size)
    IN  [p \in Pos |->
            IF p \in cleared
            THEN [g[p] EXCEPT !.building = NoBuilding, !.refX = Undef, !.refY = Undef]
            ELSE g[p]]

\* destroyBuilding; the inspector shows its button for an occupied selected
\* cell
destroyBuilding ==
    /\ ~crashed
    /\ selectedPos # NoPos
    /\ Occupied(grid[selectedPos])
    /\ edits < session.edits
    /\ grid' = DestroyedGrid(grid, selectedPos)
    /\ resources' = [resources EXCEPT !.money = @ + Refund(Def(grid[selectedPos])) * Scale]
    /\ selectedPos' = NoPos
    /\ edits' = edits + 1
    /\ UNCHANGED << gamePhase, difficulty, stats, tickCount, timeOfDay, isRaining,
                    rainTimer, timeSpeed, scheduling, session, probe, lastTick, rainRun >>

\* onCloseInspector
closeInspector ==
    /\ ~crashed
    /\ selectedPos # NoPos
    /\ selectedPos' = NoPos
    /\ UNCHANGED << gamePhase, difficulty, grid, resources, stats, tickCount, timeOfDay,
                    isRaining, rainTimer, timeSpeed, scheduling, session, probe, edits, lastTick, rainRun >>

\* handleResetGame
handleResetGame ==
    /\ ~crashed
    /\ gamePhase = "PLAYING"
    /\ gamePhase' = "MENU"
    /\ difficulty' = "NORMAL"
    /\ grid' = << >>
    /\ resources' = InitialResources
    /\ stats' = NoStats
    /\ tickCount' = 0
    /\ timeOfDay' = 8 * Scale
    /\ isRaining' = FALSE
    /\ rainTimer' = 0
    /\ timeSpeed' = 1
    /\ selectedPos' = NoPos
    /\ lastTick' = NoTick
    /\ rainRun' = NoRun
    /\ edits' = 0
    /\ interval' = GameLoopEffect("MENU", 1, interval)
    /\ UNCHANGED << crashed, boot, session, probe >>

\* handleToggleTimeSpeed, the speed button of the playing screen
handleToggleTimeSpeed ==
    /\ ~crashed
    /\ gamePhase = "PLAYING"
    /\ session.clock
    /\ timeSpeed' = (IF timeSpeed * 2 > 4 THEN 1 ELSE timeSpeed * 2)
    /\ interval' = GameLoopEffect(gamePhase, timeSpeed', interval)
    /\ UNCHANGED << gamePhase, difficulty, grid, resources, stats, tickCount, timeOfDay,
                    isRaining, rainTimer, selectedPos, crashed, boot, session, edits, probe,
                    lastTick, rainRun >>

\* the tools a click can arrive with
Tools == {"NONE", "BULLDOZER"} \cup session.palette

\* on a cell off the session's cells: the pointer and the bulldozer while a
\* building covers it (on an empty cell they only close the inspector)
ClickTools(pos) ==
    IF pos \in session.cells THEN Tools
    ELSE IF pos \in DOMAIN grid /\ Occupied(grid[pos]) THEN {"NONE", "BULLDOZER"}
    ELSE {}

Next ==
    \/ \E d \in Difficulty : StartGame(d)
    \/ \E draw \in session.draws : Tick(draw)
    \/ \E pos \in Pos : \E tool \in ClickTools(pos) : handleCellClick(pos, tool)
    \/ toggleBuildingActive
    \/ destroyBuilding
    \/ closeInspector
    \/ handleResetGame
    \/ handleToggleTimeSpeed
    \/ TimePasses

Spec == Init /\ [][Next]_vars

----------------------------------------------------------------------------
(* The effect formula of the tick applied on its own to one building value,
   from a lower and from a higher current value of the stat *)

EffectVals == {1, 5, 60}
EffectEfficiencies == {Scale \div 2, Scale}
EffectMultipliers == {Scale \div 2, Scale}
EffectStarts == {0, 30 * Scale, 100 * Scale, 135 * Scale, 140 * Scale, 200 * Scale}

EffectInputs ==
    {r \in [done : {FALSE}, val : EffectVals, efficiency : EffectEfficiencies,
             statMultiplier : EffectMultipliers, low : EffectStarts, high : EffectStarts] :
        r.low < r.high}

InitEffect == InitialState /\ probe \in EffectInputs

\* Object.entries(def.effects).forEach body for one effect, run from both
\* current values
EffectStep ==
    /\ ~probe.done
    /\ probe' = [ done |-> TRUE, val |-> probe.val, efficiency |-> probe.efficiency,
                  statMultiplier |-> probe.statMultiplier,
                  low |-> probe.low, high |-> probe.high,
                  nominal |-> NominalChange(probe.val, probe.efficiency,
                                            probe.statMultiplier),
                  lowChange |-> StatChangeNum(probe.val, probe.efficiency,
                                              probe.statMultiplier, probe.low),
                  highChange |-> StatChangeNum(probe.val, probe.efficiency,
                                               probe.statMultiplier, probe.high),
                  lowAfter |-> ApplyEffect(probe.val, probe.efficiency,
                                           probe.statMultiplier, probe.low),
                  highAfter |-> ApplyEffect(probe.val, probe.efficiency,
                                            probe.statMultiplier, probe.high) ]
    /\ UNCHANGED << gamePhase, difficulty, grid, resources, stats, tickCount, timeOfDay,
                    isRaining, rainTimer, timeSpeed, selectedPos, scheduling, session, edits, lastTick, rainRun >>

NextEffect == EffectStep

EffectSpec == InitEffect /\ [][NextEffect]_vars

----------------------------------------------------------------------------
(* The state updater of the tick applied once to a game in progress, for
   grids of standing buildings and stat values drawn from bounded sets *)

UpdaterCells == << << 0, 0 >>, << 1, 0 >>, << 2, 0 >> >>

\* what stands on a cell: nothing, or the active anchor of a 1x1 building
UpdaterKinds == {NoBuilding, "WIND_TURBINE", "SOLAR_PANEL_SMALL", "COAL_PLANT",
                 "FACTORY_SMALL", "ROBOT_HIVE"}

UpdaterWinds == {0, 5 * Scale, 10 * Scale, 40 * Scale}

UpdaterTimes == {8 * Scale, 20 * Scale}

\* the grid after the placements row[i] at UpdaterCells[i]
StandingGrid(row) ==
    [p \in Pos |->
        IF \E i \in DOMAIN row : UpdaterCells[i] = p /\ row[i] # NoBuilding
        THEN LET i == CHOOSE i \in DOMAIN row : UpdaterCells[i] = p
             IN  [EmptyCell EXCEPT !.building = row[i], !.refX = p[1], !.refY = p[2]]
        ELSE EmptyCell]

UpdaterSession ==
    [ palette |-> {}, cells |-> {}, ticks |-> 1, edits |-> 0,
      draws |-> {500}, clock |-> FALSE, saved |-> "none" ]

\* the game state `game` in hand, no building selected, the game loop effect
\* run
InProgressFrom(game) ==
    /\ gamePhase = game.gamePhase
    /\ difficulty = game.difficulty
    /\ grid = game.grid
    /\ resources = game.resources
    /\ stats = game.stats
    /\ tickCount = game.tickCount
    /\ timeOfDay = game.timeOfDay
    /\ isRaining = game.isRaining
    /\ rainTimer = game.rainTimer
    /\ timeSpeed = game.timeSpeed
    /\ selectedPos = NoPos
    /\ interval = GameLoopEffect(gamePhase, timeSpeed, NoInterval)
    /\ crashed = FALSE
    /\ boot = [ resumed |-> TRUE ]
    /\ edits = 0
    /\ lastTick = NoTick
    /\ rainRun = NoRun

\* a game of difficulty d in progress: the grid g standing, st the stats
\* reached, time the hour and money the money left
InProgress(d, g, st, time, money) ==
    InProgressFrom([ NewGame(d) EXCEPT !.grid = g, !.stats = st, !.timeOfDay = time,
                                       !.resources.money = money ])

InitUpdater ==
    /\ session = UpdaterSession
    /\ \E row \in [DOMAIN UpdaterCells -> UpdaterKinds], d \in Difficulty,
          wind \in UpdaterWinds, time \in UpdaterTimes :
        InProgress(d, StandingGrid(row), [NoStats EXCEPT !["WIND"] = wind], time,
                   NewGame(d).resources.money)
    /\ probe = NoProbe

NextUpdater == \E draw \in session.draws : Tick(draw)

UpdaterSpec == InitUpdater /\ [][NextUpdater]_vars

----------------------------------------------------------------------------
(* One click on a cell with a building picked in the build menu, in a game in
   progress whose grid and money are drawn from bounded sets *)

PlacementKinds == {NoBuilding, "SOLAR_PANEL_SMALL"}

PlacementMoney == {0, 99 * Scale, 100 * Scale, 149 * Scale, 150 * Scale,
                   199 * Scale, 200 * Scale, 300 * Scale}

PlacementSession ==
    [ palette |-> {"SOLAR_PANEL_SMALL", "SOLAR_PANEL_LARGE", "APARTMENT"}, cells |-> Pos,
      ticks |-> 0, edits |-> 1, draws |-> {500}, clock |-> FALSE, saved |-> "none" ]

InitPlacement ==
    /\ session = PlacementSession
    /\ \E row \in [DOMAIN UpdaterCells -> PlacementKinds], money \in PlacementMoney :
        InProgress("NORMAL", StandingGrid(row), NoStats, 8 * Scale, money)
    /\ probe = NoProbe

NextPlacement ==
    \E pos \in Pos, selectedBuilding \in session.palette :
        handleCellClick(pos, selectedBuilding)

PlacementSpec == InitPlacement /\ [][NextPlacement]_vars

----------------------------------------------------------------------------
(* The state updater applied to two grids that hold the same active buildings
   at different cells, from the same stats, resources, time and weather *)

OrderKinds == {NoBuilding, "COAL_PLANT", "FOREST_GROVE"}

OrderAirs == {0, Scale, 50 * Scale, 140 * Scale}

\* the buildings of a row, as a bag
Holding(row) ==
    [b \in OrderKinds \ {NoBuilding} |-> Cardinality({i \in DOMAIN row : row[i] = b})]

OrderInputs ==
    {r \in [done : {FALSE}, row : [DOMAIN UpdaterCells -> OrderKinds],
             other : [DOMAIN UpdaterCells -> OrderKinds]] :
        r.row # r.other /\ Holding(r.row) = Holding(r.other)}

InitOrder ==
    /\ session = UpdaterSession
    /\ \E in \in OrderInputs, d \in Difficulty, air \in OrderAirs :
        /\ InProgress(d, StandingGrid(in.row), [NoStats EXCEPT !["AIR"] = air], 8 * Scale,
                      NewGame(d).resources.money)
        /\ probe = in

\* the updater run on the grid and on the other grid
OrderStep ==
    /\ ~probe.done
    /\ LET prev == [ grid |-> grid, resources |-> resources, stats |-> stats,
                     timeOfDay |-> timeOfDay, isRaining |-> isRaining,
                     rainTimer |-> rainTimer, rainRun |-> rainRun,
                     difficulty |-> difficulty ]
       IN  probe' = [ done |-> TRUE, row |-> probe.row, other |-> probe.other,
                      here |-> TickOf(prev, 500, 1),
                      there |-> TickOf([prev EXCEPT !.grid = StandingGrid(probe.other)],
                                       500, 1) ]
    /\ UNCHANGED << gamePhase, difficulty, grid, resources, stats, tickCount, timeOfDay,
                    isRaining, rainTimer, timeSpeed, selectedPos, scheduling, session,
                    edits, lastTick, rainRun >>

NextOrder == OrderStep

OrderSpec == InitOrder /\ [][NextOrder]_vars

----------------------------------------------------------------------------
(* A resumed game left to the interval: polluted ground, coal plants and
   buildings of a retired type standing, and the firings that follow *)

LiveKinds == {NoBuilding, "COAL_PLANT", "RETIRED_BUILDING"}

\* the pollution the save holds on every cell
LiveLevels == {0, Scale \div 2, Scale, 2 * Scale}

\* firings enough to clear the highest of LiveLevels
LiveSession ==
    [ palette |-> {}, cells |-> {}, ticks |-> 3, edits |-> 0,
      draws |-> {500}, clock |-> FALSE, saved |-> "none" ]

Polluted(g, level) == [p \in Pos |-> [g[p] EXCEPT !.pollution = level]]

InitLive ==
    /\ session = LiveSession
    /\ \E row \in [DOMAIN UpdaterCells -> LiveKinds], level \in LiveLevels :
        InProgress("NORMAL", Polluted(StandingGrid(row), level), NoStats, 8 * Scale,
                   NewGame("NORMAL").resources.money)
    /\ probe = NoProbe

NextLive == \E draw \in session.draws : Tick(draw)

\* what every firing of the interval does to tickCount and crashed: the
\* updater returns and the tick is counted, or it throws
Fired ==
    /\ ~crashed
    /\ interval.armed
    /\ tickCount < session.ticks
    /\ IF Throws(grid, difficulty)
       THEN crashed' = TRUE /\ tickCount' = tickCount
       ELSE crashed' = crashed /\ tickCount' = tickCount + 1

\* setInterval fires again and again while the interval is armed
LiveSpec == InitLive /\ [][NextLive]_vars /\ WF_<< tickCount, crashed >>(Fired)

----------------------------------------------------------------------------
(* The state updater applied once to a game in progress whose housing, rain
   collectors and tanks, water stock, Earth stat, hour and weather are drawn
   from bounded sets *)

WaterKinds == {NoBuilding, "HOUSE", "ROBOT_HIVE", "RAIN_COLLECTOR", "WATER_TANK"}

WaterStocks == {0, 10 * Scale, 50 * Scale, 500 * Scale}

WaterEarths == {0, 3 * Scale}

WaterSession ==
    [ palette |-> {}, cells |-> {}, ticks |-> 1, edits |-> 0,
      draws |-> Draws, clock |-> FALSE, saved |-> "none" ]

InitWater ==
    /\ session = WaterSession
    /\ \E row \in [DOMAIN UpdaterCells -> WaterKinds], water \in WaterStocks,
          earth \in WaterEarths, time \in UpdaterTimes, rain \in BOOLEAN :
        InProgressFrom([ NewGame("NORMAL") EXCEPT
            !.grid = StandingGrid(row),
            !.resources.water = water,
            !.stats = [NoStats EXCEPT !["EARTH"] = earth],
            !.timeOfDay = time,
            !.isRaining = rain,
            !.rainTimer = IF rain THEN 10 ELSE 0 ])
    /\ probe = NoProbe

NextWater == \E draw \in session.draws : Tick(draw)

WaterSpec == InitWater /\ [][NextWater]_vars

----------------------------------------------------------------------------
(* Presentation *)

\* StatBar: the width of the bar, in percent
StatBarWidth(value) == Min(100 * Scale, Max(0, value))

\* StatBar: value.toFixed(1), in tenths of a percent
StatBarLabel(value) == (value * 10 + Scale \div 2) \div Scale

----------------------------------------------------------------------------
(* Properties *)

\* a step of the interval callback
TickStep == tickCount' = tickCount + 1

\* C1: in every reachable state, every cell's pollution is at least 0 and at
\* most that cell's current pollutionCap.
C1_PollutionWithinCap ==
    \A p \in DOMAIN grid :
        0 <= grid[p].pollution /\ grid[p].pollution <= grid[p].pollutionCap

\* C1 witness: after a tick, a cell under a depollution node holds exactly its
\* lowered cap, emitted onto by an operating polluter in range.
C1_Witness ==
    /\ tickCount > 0
    /\ \E p \in DOMAIN grid :
        /\ grid[p].pollution > 0
        /\ grid[p].pollution = grid[p].pollutionCap
        /\ grid[p].pollutionCap < 100 * Scale
        /\ \E q \in DOMAIN grid :
            /\ IsAnchor(grid, q) /\ grid[q].isActive /\ grid[q].efficiency > 0
            /\ Def(grid[q]).pollutionAmount * grid[q].efficiency > grid[p].pollutionCap
            /\ InRadius(p, q, Def(grid[q]).pollutionRadius)

\* C2: every value of the stats record, as the interface reads it, and the
\* percentage the stat bar prints for it, lies in [0, 100].
C2_StatsWithinPercent ==
    \A s \in StatType :
        /\ 0 <= stats[s] /\ stats[s] <= 100 * Scale
        /\ 0 <= StatBarLabel(stats[s]) /\ StatBarLabel(stats[s]) <= 100 * 10

\* the income of one tick, read back from the grid the tick returned
PostedIncome(g) ==
    SumOver(CellOrder,
        [p \in Pos |->
            IF /\ IsAnchor(g, p) /\ g[p].isActive /\ g[p].isPowered /\ g[p].efficiency > 0
            THEN Def(g[p]).resourceGeneration * g[p].efficiency
            ELSE 0])

\* C3: a tick changes money by exactly the sum, over the anchors that are
\* active, powered and of efficiency > 0, of resourceGeneration * efficiency,
\* and lastIncome is that sum.
C3_MoneyChangeIsIncome ==
    [][TickStep =>
        /\ resources'.money - resources.money = PostedIncome(grid')
        /\ resources'.lastIncome = PostedIncome(grid')]_vars

\* C3 witness: a tick has paid the income of a factory running at half
\* efficiency.
C3_Witness ==
    /\ tickCount > 0
    /\ resources.lastIncome > 0
    /\ \E p \in DOMAIN grid :
        /\ IsAnchor(grid, p) /\ grid[p].isActive /\ grid[p].isPowered
        /\ Def(grid[p]).resourceGeneration > 0
        /\ 0 < grid[p].efficiency /\ grid[p].efficiency < Scale
        /\ resources.lastIncome = Def(grid[p]).resourceGeneration * grid[p].efficiency

\* the cells of active energy consumers
ActiveConsumers(g) ==
    {p \in DOMAIN g : Occupied(g[p]) /\ g[p].isActive /\ Def(g[p]).energyConsumption < 0}

\* the summed demand of the active energy-consuming anchors
ConsumerDemand(g) ==
    Scale * SumOver(CellOrder,
        [p \in Pos |->
            IF IsAnchor(g, p) /\ p \in ActiveConsumers(g)
            THEN Abs(Def(g[p]).energyConsumption) ELSE 0])

\* C4: after a tick, if the energy produced is below the summed demand of the
\* active energy consumers, every active consumer is unpowered with
\* efficiency 0; otherwise none of them is unpowered.
C4_PowerAllOrNothing ==
    [][TickStep =>
        IF resources'.maxEnergy < ConsumerDemand(grid)
        THEN \A p \in ActiveConsumers(grid) :
                ~grid'[p].isPowered /\ grid'[p].efficiency = 0
        ELSE \A p \in ActiveConsumers(grid) : grid'[p].isPowered]_vars

\* C4 witness: two consumers of 10 each against 10 produced, and both are
\* unpowered after the tick.
C4_Witness ==
    /\ tickCount > 0
    /\ resources.maxEnergy = 10 * Scale
    /\ resources.energyDemand = 20 * Scale
    /\ \E p, q \in ActiveConsumers(grid) :
        /\ p # q /\ IsAnchor(grid, p) /\ IsAnchor(grid, q)
        /\ Def(grid[p]).energyConsumption = -10 /\ Def(grid[q]).energyConsumption = -10
        /\ ~grid[p].isPowered /\ grid[p].efficiency = 0
        /\ ~grid[q].isPowered /\ grid[q].efficiency = 0

\* the cells of g that agree with the anchor they reference on isActive
MirrorsActive(g) ==
    \A p \in DOMAIN g :
        Occupied(g[p]) => g[p].isActive = g[<< g[p].refX, g[p].refY >>].isActive

\* the cells of g that agree with the anchor they reference on isPowered and
\* efficiency
MirrorsPower(g) ==
    \A p \in DOMAIN g :
        Occupied(g[p]) =>
            LET a == << g[p].refX, g[p].refY >>
            IN  g[p].isPowered = g[a].isPowered /\ g[p].efficiency = g[a].efficiency

\* C5: every state a step leads to has every occupied cell share the isActive
\* of the anchor it references, and every state a tick leads to has it share
\* the anchor's isPowered and efficiency too.
C5_FootprintMirrorsAnchor ==
    [][MirrorsActive(grid') /\ (TickStep => MirrorsPower(grid'))]_vars

\* the rectangle of size[0] by size[1] cells whose first cell is the anchor
Rectangle(g, anchor) ==
    {p \in Pos : /\ p[1] - anchor[1] \in 0 .. Def(g[anchor]).size[1] - 1
                 /\ p[2] - anchor[2] \in 0 .. Def(g[anchor]).size[2] - 1}

FloorStart == 135 * Scale

\* the gain is at least a tenth of the nominal change, from both starts
GainAtLeastTenth ==
    /\ 10 * probe.lowChange >= probe.nominal * DiminishingDen
    /\ 10 * probe.highChange >= probe.nominal * DiminishingDen

C9_RainCollectorFourTicks ==
    Len(rainRun.before) = 4 =>
        resources.water = Min(resources.maxWater, rainRun.before[1] + 4 * 5 * Scale)

\* C9 witness: such a run of 4 ticks has ended below the cap, with exactly 20
\* more water than before it.
C9_Witness ==
    /\ Len(rainRun.before) = 4
    /\ isRaining
    /\ resources.water = rainRun.before[1] + 20 * Scale
    /\ resources.water < resources.maxWater

\* the storage capacity a tick computes from the state before it
StorageOf(g, st) ==
    50 * Scale + 10 * st["EARTH"]
    + Scale * SumOver(CellOrder,
        [p \in Pos |-> IF IsActiveAnchor(g, p) THEN Def(g[p]).waterStorage ELSE 0])

\* C10: a tick in which no active building produces or consumes water leaves
\* the water stock at the lesser of the stock before it and the storage
\* capacity of that tick: unchanged whenever the stock was within capacity.
C10_WaterKeptWithinCapacity ==
    [][(TickStep /\ NoWaterFlow(grid)) =>
        resources'.water = Min(resources.water, StorageOf(grid, stats))]_vars

\* C10 witness: the latest tick had no water producer or consumer and a stock
\* within capacity before it, and left the stock as it was.
C10_Witness ==
    /\ lastTick.ran /\ lastTick.noFlow
    /\ lastTick.water > 0
    /\ lastTick.water <= resources.maxWater
    /\ resources.water = lastTick.water

\* C10 as stated: a tick in which no active building produces or consumes
\* water leaves the water stock unchanged, whatever the stock was before.
C10_WaterUnchangedWithoutFlow ==
    [][(TickStep /\ NoWaterFlow(grid)) => resources'.water = resources.water]_vars

\* the grid holds one building only: an active solar panel of one cell at p,
\* without stat scaling or stat requirement
OnlySolarPanel(g, p) ==
    /\ IsActiveAnchor(g, p)
    /\ Def(g[p]).isSolar /\ Def(g[p]).energyConsumption > 0
    /\ Def(g[p]).size = << 1, 1 >>
    /\ Def(g[p]).statScaling = NoStats /\ Def(g[p]).minStats = NoStats
    /\ \A q \in DOMAIN g \ {p} : ~Occupied(g[q])

\* C11: with a single active solar panel of one cell on the grid, a tick whose
\* time of day is daytime (the tick from timeOfDay = 8 is one) sets maxEnergy
\* to the panel's rated output, whatever maxEnergy was before.
C11_SolarSetsMaxEnergy ==
    [][\A p \in DOMAIN grid :
        (TickStep /\ OnlySolarPanel(grid, p) /\ IsDay(NextTime(timeOfDay))) =>
            /\ resources'.maxEnergy = Def(grid[p]).energyConsumption * Scale
            /\ resources'.energy = resources'.maxEnergy]_vars

\* C11 witness: the first tick of a game, from timeOfDay = 8, has run with one
\* small solar panel as the only building, and maxEnergy is its rated output.
C11_Witness ==
    /\ tickCount = 1 /\ timeOfDay = NextTime(8 * Scale)
    /\ \E p \in DOMAIN grid : OnlySolarPanel(grid, p) /\ Def(grid[p]).energyConsumption = 10
    /\ resources.maxEnergy = 10 * Scale
    /\ resources.maxEnergy < InitialResources.maxEnergy

\* C11 as stated: with a single active solar panel of one cell on the grid and
\* timeOfDay = 8, one tick increases maxEnergy by the panel's rated output.
C11_SolarRaisesMaxEnergy ==
    [][\A p \in DOMAIN grid :
        (TickStep /\ OnlySolarPanel(grid, p) /\ timeOfDay = 8 * Scale) =>
            resources'.maxEnergy
                = resources.maxEnergy + Def(grid[p]).energyConsumption * Scale]_vars

\* C15: a tick never creates, removes or moves a building and never changes
\* the user toggle: every cell has the same building, refX, refY and isActive
\* after the tick as before it.
C15_TickKeepsBuildings ==
    [][TickStep =>
        /\ DOMAIN grid' = DOMAIN grid
        /\ \A p \in DOMAIN grid :
            /\ grid'[p].building = grid[p].building
            /\ grid'[p].refX = grid[p].refX /\ grid'[p].refY = grid[p].refY
            /\ grid'[p].isActive = grid[p].isActive]_vars

\* C15 witness: a tick has run on a building the player had switched off and
\* one left on: the first is still there, off, marked unpowered by the tick,
\* and the second is still on.
C15_Witness ==
    /\ lastTick.ran
    /\ \E p, q \in DOMAIN grid :
        /\ IsAnchor(grid, p) /\ ~grid[p].isActive
        /\ ~grid[p].isPowered /\ grid[p].efficiency = 0
        /\ IsAnchor(grid, q) /\ grid[q].isActive /\ grid[q].isPowered

\* C19: each tick sets timeOfDay to (timeOfDay + 24 / dayLength) mod 24, so
\* that what exceeds 24 is carried into the next day.
C19_TimeAdvancesMod24 ==
    [][TickStep =>
        timeOfDay' = (timeOfDay + (24 * Scale) \div DAY_LENGTH_TICKS) % (24 * Scale)]_vars

\* the Chebyshev distance of two positions
Chebyshev(p, q) == Max(Abs(p[1] - q[1]), Abs(p[2] - q[2]))

\* q is an active anchor of g whose definition has a reduction and a radius
Depollutes(g, q) ==
    /\ IsActiveAnchor(g, q)
    /\ Def(g[q]).pollutionCapReduction # 0
    /\ Def(g[q]).pollutionRadius # 0

Depolluters(g) == {q \in DOMAIN g : Depollutes(g, q)}

\* the sum of the reductions of the depolluters that reach p
ReductionAt(g, p) ==
    SeqSum([i \in 1 .. Len(CellOrder) |->
        LET q == CellOrder[i]
        IN  IF Depollutes(g, q) /\ Chebyshev(p, q) <= Def(g[q]).pollutionRadius
            THEN Def(g[q]).pollutionCapReduction * Scale ELSE 0])

\* C20: after every tick each cell's pollutionCap is max(0, 100 - the sum of
\* pollutionCapReduction over the active anchors with a reduction and a radius
\* within Chebyshev distance pollutionRadius of the cell), hence within
\* [0, 100]; the offsets that leave the grid change no cell.
C20_CapIsClampedSum ==
    [][TickStep =>
        \A p \in DOMAIN grid :
            /\ grid'[p].pollutionCap = Max(0, 100 * Scale - ReductionAt(grid, p))
            /\ grid'[p].pollutionCap >= 0
            /\ grid'[p].pollutionCap <= 100 * Scale]_vars

\* a tick ran with two depolluters at the grid's edge: a cell both reach is
\* clamped at 0, a cell only one reaches keeps 100 - 95
C20_Witness ==
    /\ lastTick.ran
    /\ Cardinality(Depolluters(grid)) = 2
    /\ \E p, q \in DOMAIN grid :
        /\ ReductionAt(grid, p) = 190 * Scale /\ grid[p].pollutionCap = 0
        /\ ReductionAt(grid, q) = 95 * Scale /\ grid[q].pollutionCap = 5 * Scale

\* the fields of the game state a tick writes
Simulation == << tickCount, grid, resources, stats, timeOfDay, isRaining, rainTimer >>

\* C12: no tick occurs while the phase is not PLAYING: outside PLAYING no
\* interval is armed, and however start, reset, speed changes and firings
\* interleave, a step that begins and ends in the menu changes none of
\* tickCount, grid, resources, stats, time and weather and ends no pipeline
\* execution in an exception.
C12_NoTickOutsidePlaying ==
    [][ /\ gamePhase # "PLAYING" => ~interval.armed
        /\ (gamePhase = "MENU" /\ gamePhase' = "MENU") =>
              /\ UNCHANGED Simulation
              /\ crashed' = crashed
              /\ ~interval'.armed ]_vars

\* back in the menu after a game whose interval ran at a changed speed was
\* reset: the interval was cleared
C12_Witness ==
    /\ gamePhase = "MENU"
    /\ session.clock
    /\ interval.cleared
    /\ ~interval.armed
    /\ tickCount = 0 /\ grid = << >>

\* a firing of the interval
Firing == \E draw \in session.draws : Tick(draw)

\* C13: each firing of the timer runs the pipeline once and advances
\* tickCount by exactly 1, and no step advances it by more (no batch, no
\* catching up): tickCount changes by one tick or is reset by start and reset.
C13_FiringAdvancesOneTick ==
    [][ /\ Firing => tickCount' = tickCount + 1
        /\ tickCount' \in {tickCount, tickCount + 1, 0} ]_vars

\* C14: a speed change leaves the tick and the firing already scheduled
\* alone, which still occurs at its original time, and the intervals after
\* that firing use max(50, TICK_RATE_MS / new speed).
C14_SpeedChangeKeepsScheduledFiring ==
    [][ /\ (gamePhase = "PLAYING" /\ gamePhase' = "PLAYING" /\ timeSpeed' # timeSpeed) =>
              /\ UNCHANGED Simulation
              /\ interval'.armed
              /\ interval'.left = interval.left
        /\ (Firing /\ interval'.armed) => interval'.left = Delay(ClosureSpeed(timeSpeed)) ]_vars

\* the cells whose building has no definition in the catalogue
Undefined(g) == {p \in DOMAIN g : Occupied(g[p]) /\ g[p].building \notin BuildingType}

\* C16: when a firing finds a placed building without a definition in the
\* catalogue, the tick completes (tickCount advances, no exception leaves the
\* pipeline) and the building's cell is inert: it is left unpowered at
\* efficiency 0.
C16_MissingDefinitionIsInert ==
    [][ (Firing /\ Undefined(grid) # {}) =>
            /\ tickCount' = tickCount + 1
            /\ ~crashed'
            /\ \A p \in Undefined(grid) :
                   ~grid'[p].isPowered /\ grid'[p].efficiency = 0 ]_vars

\* the keys of GameState this model reads
RequiredFields == DOMAIN getInitialState

\* the stored text parses and has every required key
Complete(stored) == stored.parses /\ RequiredFields \subseteq DOMAIN stored.parsed

\* C17: when the persisted text fails to parse or lacks any required field,
\* the application starts from a freshly initialized state and does not
\* resume from the text.
C17_IncompleteSaveFallsBack ==
    (Stored(session.saved).saved /\ ~Complete(Stored(session.saved))) => ~boot.resumed

\* C18: a rain that starts in a tick at speed multiplier s starts from the dry
\* state with rainTimer = 30 x s; while it rains with rainTimer > 0 a tick
\* decrements rainTimer by exactly 1 and keeps the rain; a tick never
\* restarts the timer of a rain in progress; and a rain stops only in a tick
\* that begins with rainTimer = 0.
C18_RainLock ==
    [][TickStep =>
        /\ (~isRaining /\ isRaining') => rainTimer' = 30 * timeSpeed
        /\ (isRaining /\ rainTimer > 0) => (isRaining' /\ rainTimer' = rainTimer - 1)
        /\ isRaining => rainTimer' <= rainTimer
        /\ (isRaining /\ ~isRaining') => rainTimer = 0 ]_vars

\* the latest tick ended a rain: it began at least thirty-one ticks earlier
\* and every tick in between found it locked
C18_Witness ==
    /\ lastTick.ran
    /\ lastTick.rained
    /\ ~isRaining
    /\ rainTimer = 0
    /\ tickCount >= 32

\* the water the active anchors of g produce in a tick that ends raining or
\* dry: rain collectors under rain, condensers while powered
ProducedWater(g, rain) ==
    Scale * SumOver(CellOrder,
        [p \in Pos |->
            IF IsActiveAnchor(g, p)
               /\ \/ g[p].building = "RAIN_COLLECTOR" /\ rain
                  \/ g[p].building = "ATMOSPHERIC_CONDENSER" /\ g[p].isPowered
            THEN Def(g[p]).waterGeneration ELSE 0])

\* the water the active consuming anchors of g take in the tick that leads to
\* the grid h: every one that is not an energy producer and that the tick
\* left powered
ConsumedWater(g, h) ==
    Scale * SumOver(CellOrder,
        [p \in Pos |->
            IF IsActiveAnchor(g, p) /\ Def(g[p]).energyConsumption <= 0 /\ h[p].isPowered
            THEN Def(g[p]).waterConsumption ELSE 0])

\* C21: after every tick maxWater is the storage capacity 50 + 10 x the Earth
\* stat the tick started with + the waterStorage of the active anchors, and
\* water is the previous water + waterProduced - waterConsumed clamped to
\* [0, capacity]; hence 0 <= water <= maxWater.
C21_WaterClampedToStorage ==
    [][TickStep =>
        /\ resources'.maxWater = StorageOf(grid, stats)
        /\ resources'.water =
              Max(0, Min(StorageOf(grid, stats),
                         resources.water + ProducedWater(grid, isRaining')
                                         - ConsumedWater(grid, grid')))
        /\ 0 <= resources'.water
        /\ resources'.water <= resources'.maxWater]_vars

\* three houses drank more than the stock of 50 the previous tick had left:
\* the stock is floored at 0
C21_Witness ==
    /\ lastTick.ran
    /\ lastTick.water = 50 * Scale
    /\ resources.water = 0
    /\ resources.maxWater = 50 * Scale
    /\ Cardinality({p \in DOMAIN grid : IsActiveAnchor(grid, p) /\ grid[p].building = "HOUSE"}) = 3

\* the active anchors of g that provide workers
Housing(g) == {p \in DOMAIN g : IsActiveAnchor(g, p) /\ Def(g[p]).workersProvided > 0}

\* the housing anchor p supplies its workers in a tick of the given daylight
\* that starts with the given water stock
Supplies(g, p, day, stock) ==
    /\ day \/ Def(g[p]).isRobot
    /\ Def(g[p]).waterConsumption = 0 \/ stock > 0

\* C22: in every tick the workers of an active housing anchor count toward
\* the workforce supply exactly when (it is day or the building is a robot)
\* and (the building consumes no water or the water stock the tick starts
\* with is positive); water produced in the tick itself does not count.
C22_WorkersNeedWaterInStock ==
    [][TickStep =>
        resources'.workforce =
            SumOver(CellOrder,
                [p \in Pos |->
                    IF p \in Housing(grid)
                       /\ Supplies(grid, p, IsDay(timeOfDay'), resources.water)
                    THEN Def(grid[p]).workersProvided ELSE 0])]_vars

\* a daytime tick that started with an empty stock while a rain collector
\* collected: the house supplied no workers
C22_Witness ==
    /\ lastTick.ran
    /\ lastTick.water = 0
    /\ lastTick.noFlow = FALSE
    /\ isRaining
    /\ IsDay(timeOfDay)
    /\ resources.workforce = 0
    /\ \E p, q \in DOMAIN grid :
        /\ p \in Housing(grid) /\ grid[p].building = "HOUSE"
        /\ IsActiveAnchor(grid, q) /\ grid[q].building = "RAIN_COLLECTOR"
        /\ grid[p].efficiency = 0

\* C29: in every tick an active housing anchor whose workers count toward the
\* workforce supply ends the tick with efficiency > 0, and a housing anchor
\* that ends the tick with efficiency 0 supplied no workers.
C29_CountedHousingIsEfficient ==
    [][TickStep =>
        \A p \in Housing(grid) :
            Supplies(grid, p, IsDay(timeOfDay'), resources.water) <=>
                grid'[p].efficiency > 0]_vars

\* the money at the start of the present sequence of clicks: what the latest
\* tick left, or what the game started with
SequenceStartMoney ==
    IF lastTick.ran THEN lastTick.money
    ELSE Mul(INITIAL_MONEY * Scale, DIFFICULTY_CONFIG[difficulty].moneyMultiplier)

GateProduced(g, st, isDay) ==
    SumOver(ActiveAnchors(g), [p \in Pos |-> TempEnergyOf(Def(g[p]), st, isDay)])

\* C23: the energy the second pass totals for the power gate is the energy
\* the effect pass reports as maxEnergy, the demand the third pass totals is
\* the reported energyDemand, and the reported net energy is negative exactly
\* when the gate denied power, which is when the tick left an active energy
\* consumer unpowered.
C23_GateTotalsAreReported ==
    [][TickStep =>
        LET produced == GateProduced(grid, stats, IsDay(timeOfDay'))
            demand == ConsumerDemand(grid)
        IN  /\ resources'.maxEnergy = produced
            /\ resources'.energyDemand = demand
            /\ resources'.energy = produced - demand
            /\ resources'.energy < 0 <=> ~GridHasPower(produced, demand)
            /\ resources'.energy < 0 <=>
                    \E p \in ActiveConsumers(grid) : ~grid'[p].isPowered]_vars

\* C23 witness: a wind turbine scaled by a wind of 40 (15 x 1.4 = 21) next
\* to two consumers of 10 each: the gate grants power and the net energy is 1.
C23_Witness ==
    /\ tickCount = 1
    /\ stats["WIND"] = 40 * Scale
    /\ resources.maxEnergy = 21 * Scale
    /\ resources.energyDemand = 20 * Scale
    /\ resources.energy = Scale
    /\ \E p \in DOMAIN grid : grid[p].building = "WIND_TURBINE" /\ grid[p].isActive
    /\ \A p \in ActiveConsumers(grid) : grid[p].isPowered

\* C24: after every tick, every cell whose isActive is false has isPowered
\* false and efficiency 0, whether or not it holds a building.
C24_InactiveCellsUnpowered ==
    [][TickStep =>
        \A p \in DOMAIN grid' :
            ~grid'[p].isActive => ~grid'[p].isPowered /\ grid'[p].efficiency = 0]_vars

\* every occupied cell of g references an anchor that holds the same building
\* and whose footprint contains the cell
ReferencesAnchor(g) ==
    \A p \in DOMAIN g :
        Occupied(g[p]) =>
            LET a == << g[p].refX, g[p].refY >>
            IN  /\ a \in DOMAIN g
                /\ IsAnchor(g, a)
                /\ g[a].building = g[p].building
                /\ p \in Rectangle(g, a)

\* every cell of the footprint of every anchor of g is in the grid and is
\* occupied by the anchor's building
FootprintsWhole(g) ==
    \A a \in DOMAIN g :
        IsAnchor(g, a) =>
            \A i \in 0 .. Def(g[a]).size[1] - 1, j \in 0 .. Def(g[a]).size[2] - 1 :
                LET p == << a[1] + i, a[2] + j >>
                IN  /\ p \in DOMAIN g
                    /\ g[p].building = g[a].building
                    /\ << g[p].refX, g[p].refY >> = a

\* C26: in every state a game started from the menu reaches by placements,
\* bulldozer clicks, selections, inspector demolitions, toggles and ticks,
\* every occupied cell references an anchor of the same building whose
\* footprint contains it, and every footprint cell of every anchor is
\* occupied by that building.
C26_FootprintIntegrity ==
    ~boot.resumed => ReferencesAnchor(grid) /\ FootprintsWhole(grid)

\* the cells pos + (i, j) of the footprint of building b placed at pos,
\* inside the grid or not
PlacementCells(pos, b) ==
    {<< pos[1] + i, pos[2] + j >> :
        i \in 0 .. BUILDINGS[b].size[1] - 1, j \in 0 .. BUILDINGS[b].size[2] - 1}

\* the whole footprint inside the grid, every cell of it empty, and the cost
\* covered
PlacementAllowed(g, money, pos, b) ==
    /\ PlacementCells(pos, b) \subseteq DOMAIN g
    /\ \A p \in PlacementCells(pos, b) : g[p].building = NoBuilding
    /\ money >= BUILDINGS[b].cost * Scale

\* C27: a click with a building picked changes grid and resources only when
\* the whole footprint lies inside the grid, every footprint cell is empty and
\* money >= cost; it then occupies exactly the footprint cells with the
\* clicked cell as anchor and deducts exactly the cost; in every other case
\* grid and resources are unchanged, and money does not become negative.
C27_PlacementAllOrNothing ==
    [][\A pos \in Pos, b \in session.palette :
        handleCellClick(pos, b) =>
            /\ IF PlacementAllowed(grid, resources.money, pos, b)
               THEN /\ \A p \in Pos :
                        IF p \in PlacementCells(pos, b)
                        THEN /\ grid'[p].building = b
                             /\ << grid'[p].refX, grid'[p].refY >> = pos
                        ELSE grid'[p] = grid[p]
                    /\ resources' = [resources EXCEPT
                            !.money = @ - BUILDINGS[b].cost * Scale]
               ELSE grid' = grid /\ resources' = resources
            /\ resources.money >= 0 => resources'.money >= 0]_vars

\* C27 witness: an apartment of 2x2 bought with exactly its cost of 200 next
\* to a standing panel: four cells reference the clicked cell, no money left.
C27_Witness ==
    /\ edits = 1
    /\ resources.money = 0
    /\ grid[<< 0, 0 >>].building = "SOLAR_PANEL_SMALL"
    /\ \A p \in {<< 1, 1 >>, << 2, 1 >>, << 1, 2 >>, << 2, 2 >>} :
        /\ grid[p].building = "APARTMENT"
        /\ << grid[p].refX, grid[p].refY >> = << 1, 1 >>
    /\ \A p \in Pos \ {<< 0, 0 >>, << 1, 1 >>, << 2, 1 >>, << 1, 2 >>, << 2, 2 >>} :
        grid[p].building = NoBuilding

\* C28: two grids holding the same active buildings at different cells, with
\* the same previous stats, resources, time and weather, yield the same next
\* stats.
C28_StatsIgnoreOrder ==
    probe.done => probe.here.stats = probe.there.stats

\* no active, powered anchor of positive efficiency has the cell p within its
\* pollution radius
Quiet(g, p) ==
    \A q \in DOMAIN g :
        ~ /\ IsActiveAnchor(g, q) /\ g[q].isPowered /\ g[q].efficiency > 0
          /\ Def(g[q]).pollutionAmount > 0
          /\ Def(g[q]).pollutionRadius > 0
          /\ Chebyshev(p, q) <= Def(g[q]).pollutionRadius

\* every cell no anchor emits onto is free of pollution
QuietCellsClean == \A p \in Pos : Quiet(grid, p) => grid[p].pollution = 0

\* C25: a cell onto which no active, powered, positive-efficiency anchor emits
\* pollution has strictly lower pollution after each tick while its pollution
\* is positive, and its pollution eventually reaches 0 and then stays 0.
C25_QuietPollutionDecays ==
    /\ [][TickStep =>
            \A p \in Pos :
                Quiet(grid', p) /\ grid[p].pollution > 0 =>
                    grid'[p].pollution < grid[p].pollution]_vars
    /\ <>[]QuietCellsClean

====
